---- MODULE Spec2Model ----
(***************************************************************************)
(* Model of scripts/enrich.py: the three inference functions               *)
(* (infer_language, infer_category, infer_framework) and the driver        *)
(* enrich_agents that applies them to agent records.                      *)
(*                                                                         *)
(* Representation of Python values.                                        *)
(*  - A text (str) is a sequence of phrases; the string is the phrases     *)
(*    joined by single spaces.  A regular expression is modelled by the    *)
(*    set of phrases of the vocabulary in which it finds a match, so       *)
(*    re.search(p, text) is "some phrase of text is in that set".          *)
(*  - A Counter is the sequence of its (label, n) items in insertion       *)
(*    order, which is the order Counter.most_common breaks ties by.        *)
(*  - An agent is a record with every inspected key; agent.absent is the   *)
(*    set of keys missing from the JSON object and agent.null the set of   *)
(*    keys whose JSON value is null (a malformed field).                   *)
(*  - A raised exception is the result Fault.                              *)
(***************************************************************************)
EXTENDS Integers, Sequences, FiniteSets, TLC

VARIABLES
    agent,      \* the record an inference function is applied to / the driver holds
    called,     \* which inference function has been applied ("none" before the call)
    result,     \* what the applied inference function returned
    files,      \* the record store: the sequence of agent files the driver walks
    store,      \* the record store as it was before the run
    idx,        \* index of the file the driver is at
    pc,         \* the driver's position within the loop body
    orig,       \* the current file's record as it was read
    modified,   \* the driver's flag: the current record was changed
    file_changes, \* the (axis, old, new) changes recorded for the current record
    invoked,    \* axes for which the driver called inference on the current record
    stats       \* the driver's counters

vars == <<agent, called, result, store, files, idx, pc, orig, modified, file_changes, invoked, stats>>

None == "None"
Fault == "Fault"

----------------------------------------------------------------------------
(* Strings *)

\* str.lower() on the phrases and tags of the vocabulary
Lower(s) ==
    CASE s = "Rust" -> "rust"
      [] s = "Golang" -> "golang"
      [] s = "Go" -> "go"
      [] s = "Python" -> "python"
      [] s = "Crewai" -> "crewai"
      [] s = "LangGraph" -> "langgraph"
      [] s = "Official A2A" -> "official a2a"
      [] s = "Business" -> "business"
      [] s = "Search" -> "search"
      [] s = "Lifie AI" -> "lifie ai"
      [] s = "LIFIE AI" -> "lifie ai"
      [] s = "A2A-Go" -> "a2a-go"
      [] s = "https://Lifie.ai" -> "https://lifie.ai"
      [] OTHER -> s

LowerText(text) == [i \in DOMAIN text |-> Lower(text[i])]

\* re.search(pattern, text), the pattern given by the phrases it matches in
Search(toks, text) == \E i \in DOMAIN text : text[i] \in toks

----------------------------------------------------------------------------
(* collections.Counter *)

CounterAdd(c, label, w) ==
    IF \E i \in DOMAIN c : c[i].label = label
    THEN [i \in DOMAIN c |->
            IF c[i].label = label THEN [label |-> label, n |-> c[i].n + w] ELSE c[i]]
    ELSE Append(c, [label |-> label, n |-> w])

RemoveAt(s, i) == [j \in 1..(Len(s) - 1) |-> IF j < i THEN s[j] ELSE s[j + 1]]

\* Counter.most_common(k): the k items of highest count, highest first,
\* items of equal count in insertion order.
RECURSIVE MostCommon(_, _)
MostCommon(c, k) ==
    IF k = 0 \/ c = <<>> THEN <<>>
    ELSE LET i == CHOOSE i \in DOMAIN c :
                    /\ \A j \in DOMAIN c : c[j].n <= c[i].n
                    /\ \A j \in 1..(i - 1) : c[j].n < c[i].n
         IN <<c[i]>> \o MostCommon(RemoveAt(c, i), k - 1)

\* the count a Counter holds for a label (0 for a label never added)
Score(c, label) ==
    IF \E i \in DOMAIN c : c[i].label = label
    THEN (CHOOSE x \in {c[i] : i \in DOMAIN c} : x.label = label).n
    ELSE 0

CounterLabels(c) == {c[i].label : i \in DOMAIN c}

\* candidates[label] += w for each contribution (label, w), in order
RECURSIVE AddAll(_, _, _)
AddAll(c, contributions, i) ==
    IF i > Len(contributions) THEN c
    ELSE AddAll(CounterAdd(c, contributions[i].label, contributions[i].w),
                contributions, i + 1)

----------------------------------------------------------------------------
(* dict.get *)

IsNone(a, key) == key \notin a.absent /\ key \in a.null
Get(a, key, default) == IF key \in a.absent THEN default ELSE a[key]

EmptyText == <<>>
EmptyRepo == <<"">>

----------------------------------------------------------------------------
(* Language inference *)

\* Framework -> language mapping
FRAMEWORK_TO_LANGUAGE ==
       ("google-adk" :> "python")
    @@ ("langgraph" :> "python")
    @@ ("langchain" :> "python")
    @@ ("crewai" :> "python")
    @@ ("autogen" :> "python")
    @@ ("llamaindex" :> "python")
    @@ ("fastapi" :> "python")
    @@ ("semantic-kernel" :> "csharp")
    @@ ("spring-boot" :> "java")
    @@ ("nestjs" :> "typescript")
    @@ ("genkit" :> "typescript")
    @@ ("openai-agents" :> "python")
    @@ ("pydantic-ai" :> "python")
    @@ ("strands-agents" :> "python")

\* Tags that directly indicate language (exact match)
TAG_TO_LANGUAGE ==
       ("python" :> "python")
    @@ ("python3" :> "python")
    @@ ("python-sdk" :> "python")
    @@ ("adk-python" :> "python")
    @@ ("flask" :> "python")
    @@ ("django" :> "python")
    @@ ("fastapi" :> "python")
    @@ ("typescript" :> "typescript")
    @@ ("ts" :> "typescript")
    @@ ("javascript" :> "typescript")
    @@ ("js" :> "typescript")
    @@ ("nodejs" :> "typescript")
    @@ ("node" :> "typescript")
    @@ ("nextjs" :> "typescript")
    @@ ("nestjs" :> "typescript")
    @@ ("deno" :> "typescript")
    @@ ("java" :> "java")
    @@ ("java-sdk" :> "java")
    @@ ("spring" :> "java")
    @@ ("spring-boot" :> "java")
    @@ ("springboot" :> "java")
    @@ ("springboot3" :> "java")
    @@ ("springframework" :> "java")
    @@ ("spring-ai" :> "java")
    @@ ("a2a4j" :> "java")
    @@ ("wildfly" :> "java")
    @@ ("go" :> "go")
    @@ ("golang" :> "go")
    @@ ("go-sdk" :> "go")
    @@ ("rust" :> "rust")
    @@ ("rust-sdk" :> "rust")
    @@ ("csharp" :> "csharp")
    @@ ("c-sharp" :> "csharp")
    @@ ("dotnet" :> "csharp")
    @@ (".net" :> "csharp")
    @@ ("aspnet" :> "csharp")
    @@ ("kotlin" :> "kotlin")
    @@ ("kotlin-sdk" :> "kotlin")
    @@ ("php" :> "php")
    @@ ("php-sdk" :> "php")
    @@ ("sdk-php" :> "php")
    @@ ("ruby" :> "ruby")
    @@ ("ruby-gem" :> "ruby")
    @@ ("rubygem" :> "ruby")
    @@ ("swift" :> "swift")
    @@ ("elixir" :> "elixir")
    @@ ("dart" :> "dart")
    @@ ("flutter" :> "dart")
    @@ ("zig" :> "zig")
    @@ ("adk-zig" :> "zig")
    @@ ("lua" :> "lua")
    @@ ("pydantic-ai" :> "python")
    @@ ("pydantic" :> "python")
    @@ ("modal" :> "python")
    @@ ("uvicorn" :> "python")
    @@ ("pip" :> "python")
    @@ ("poetry" :> "python")
    @@ ("uv" :> "python")
    @@ ("react" :> "typescript")
    @@ ("reactjs" :> "typescript")
    @@ ("vue" :> "typescript")
    @@ ("vite" :> "typescript")
    @@ ("bun" :> "typescript")
    @@ ("npm" :> "typescript")
    @@ ("vercel" :> "typescript")
    @@ ("vercel-ai-sdk" :> "typescript")
    @@ ("ai-sdk" :> "typescript")
    @@ ("rust-lang" :> "rust")
    @@ ("go-lang" :> "go")
    @@ ("asp-net-core" :> "csharp")
    @@ ("asp.net" :> "csharp")
    @@ ("blazor" :> "csharp")

\* Patterns in slug / name, searched in the lowercased text: per pattern, the
\* lowercased phrases it matches in
NAME_SLUG_LANGUAGE_PATTERNS == <<
    [toks |-> {"python"}, label |-> "python"],
    [toks |-> {"ts", "typescript"}, label |-> "typescript"],
    [toks |-> {"java"}, label |-> "java"],
    [toks |-> {"golang"}, label |-> "go"],
    [toks |-> {"rust"}, label |-> "rust"],
    [toks |-> {"csharp"}, label |-> "csharp"],
    [toks |-> {"kotlin"}, label |-> "kotlin"],
    [toks |-> {"php"}, label |-> "php"],
    [toks |-> {"ruby"}, label |-> "ruby"],
    [toks |-> {"swift"}, label |-> "swift"],
    [toks |-> {"elixir"}, label |-> "elixir"],
    [toks |-> {"dart"}, label |-> "dart"],
    [toks |-> {"flutter"}, label |-> "dart"],
    [toks |-> {"zig"}, label |-> "zig"]
>>

\* Repo name suffixes
REPO_SUFFIX_LANGUAGE ==
       ("-go" :> "go")
    @@ ("-python" :> "python")
    @@ ("-py" :> "python")
    @@ ("-java" :> "java")
    @@ ("-ts" :> "typescript")
    @@ ("-typescript" :> "typescript")
    @@ ("-js" :> "typescript")
    @@ ("-rust" :> "rust")
    @@ ("-rs" :> "rust")
    @@ ("-csharp" :> "csharp")
    @@ ("-dotnet" :> "csharp")
    @@ ("-kotlin" :> "kotlin")
    @@ ("-php" :> "php")
    @@ ("-ruby" :> "ruby")
    @@ ("-rb" :> "ruby")
    @@ ("-swift" :> "swift")
    @@ ("-elixir" :> "elixir")
    @@ ("-dart" :> "dart")
    @@ ("-zig" :> "zig")
    @@ ("-lua" :> "lua")

\* Description patterns, case-sensitive, searched in the raw description
DESC_LANGUAGE_PATTERNS == <<
    [toks |-> {"Python"}, label |-> "python"],
    [toks |-> {"TypeScript"}, label |-> "typescript"],
    [toks |-> {"JavaScript"}, label |-> "typescript"],
    [toks |-> {"Node.js"}, label |-> "typescript"],
    [toks |-> {"Java"}, label |-> "java"],
    [toks |-> {"Go implementation"}, label |-> "go"],
    [toks |-> {"written in Go"}, label |-> "go"],
    [toks |-> {"Go implementation"}, label |-> "go"],
    [toks |-> {"Golang"}, label |-> "go"],
    [toks |-> {"Rust"}, label |-> "rust"],
    [toks |-> {}, label |-> "csharp"],
    [toks |-> {".NET"}, label |-> "csharp"],
    [toks |-> {"Kotlin"}, label |-> "kotlin"],
    [toks |-> {"PHP"}, label |-> "php"],
    [toks |-> {"Ruby"}, label |-> "ruby"],
    [toks |-> {"Swift"}, label |-> "swift"],
    [toks |-> {"Elixir"}, label |-> "elixir"],
    [toks |-> {"Dart"}, label |-> "dart"],
    [toks |-> {"Flutter"}, label |-> "dart"],
    [toks |-> {"Zig"}, label |-> "zig"]
>>

\* SDKs field as weak signal
SDK_TO_LANGUAGE ==
       ("python" :> "python")
    @@ ("typescript" :> "typescript")
    @@ ("java" :> "java")
    @@ ("go" :> "go")
    @@ ("rust" :> "rust")
    @@ ("csharp" :> "csharp")
    @@ ("kotlin" :> "kotlin")


\* the (\w+) phrases: phrases that are one word
WordPhrases == {"Rust", "Golang", "Go", "Python", "sample", "adk", "Crewai", "LangGraph",
                "python", "rust", "go", "java", "typescript", "csharp", "kotlin", "None"}

\* languages the official-sample pattern accepts
SAMPLE_LANGUAGES == {"python", "java", "typescript", "go", "rust", "csharp", "kotlin"}

\* name.endswith(suffix) for the repository basenames of the vocabulary
EndsWith(name, suffix) ==
    \/ name = "a2a-go" /\ suffix = "-go"
    \/ name = "a2a-rs" /\ suffix = "-rs"
    \/ name = "agent-python" /\ suffix = "-python"

\* "github.com" in repo, the repository given as its "/"-separated segments
ContainsGithub(repo) == \E i \in DOMAIN repo : repo[i] \in {"github.com", "www.github.com"}

\* repo.rstrip("/").split("/")
RECURSIVE RStripSplit(_)
RStripSplit(repo) ==
    IF Len(repo) > 1 /\ repo[Len(repo)] = ""
    THEN RStripSplit(SubSeq(repo, 1, Len(repo) - 1))
    ELSE repo

\* for pattern, label in table: if re.search(pattern, text): candidates[label] += w
\* -- the contributions of the loop, in table order
TableHits(table, text, w) ==
    LET hits == SelectSeq(table, LAMBDA row : Search(row.toks, text))
    IN [i \in DOMAIN hits |-> [label |-> hits[i].label, w |-> w]]

\* 1. Framework mapping (weight 3)
LangFramework(a) ==
    LET fw == IF IsNone(a, "framework") THEN None ELSE Get(a, "framework", "")
    IN IF fw \in DOMAIN FRAMEWORK_TO_LANGUAGE
       THEN <<[label |-> FRAMEWORK_TO_LANGUAGE[fw], w |-> 3]>> ELSE <<>>

\* 2. Tags (weight 3)
LangTags(tags) ==
    LET hits == SelectSeq(tags, LAMBDA tag : Lower(tag) \in DOMAIN TAG_TO_LANGUAGE)
    IN [i \in DOMAIN hits |-> [label |-> TAG_TO_LANGUAGE[Lower(hits[i])], w |-> 3]]

\* the suffixes in dict order
REPO_SUFFIXES == <<"-go", "-python", "-py", "-java", "-ts", "-typescript", "-js", "-rust",
                   "-rs", "-csharp", "-dotnet", "-kotlin", "-php", "-ruby", "-rb", "-swift",
                   "-elixir", "-dart", "-zig", "-lua">>

\* 3. Repo URL suffix (weight 3)
LangRepo(a) ==
    LET repo == Get(a, "repository", EmptyRepo)
        repo_name == RStripSplit(repo)
    IN IF IsNone(a, "repository") \/ repo = EmptyRepo THEN <<>>
       ELSE IF ContainsGithub(repo) /\ Len(repo_name) >= 5
            THEN LET actual_repo == Lower(repo_name[5])
                     hits == SelectSeq(REPO_SUFFIXES, LAMBDA suffix : EndsWith(actual_repo, suffix))
                 IN [i \in DOMAIN hits |-> [label |-> REPO_SUFFIX_LANGUAGE[hits[i]], w |-> 3]]
            ELSE <<>>

\* f"{x}": a str as it is, None as the text "None"
Format(a, key) == IF IsNone(a, key) THEN <<"None">> ELSE Get(a, key, EmptyText)

\* 4. Slug / name patterns (weight 2)
LangNameSlug(a) ==
    LET combined == LowerText(Format(a, "slug") \o Format(a, "name"))
    IN TableHits(NAME_SLUG_LANGUAGE_PATTERNS, combined, 2)

\* 5. Description patterns (weight 2)
LangDesc(desc) == TableHits(DESC_LANGUAGE_PATTERNS, desc, 2)

\* re.search(r'Official A2A (\w+) sample', desc): the positions of a match
OfficialSampleAt(desc) ==
    {i \in 1..(Len(desc) - 2) :
        desc[i] = "Official A2A" /\ desc[i + 1] \in WordPhrases /\ desc[i + 2] = "sample"}

\* 6. Official sample description pattern (weight 5)
LangOfficial(desc) ==
    IF Len(desc) >= 1 /\ desc[1] = "Official A2A"
    THEN IF OfficialSampleAt(desc) # {}
         THEN LET m == CHOOSE i \in OfficialSampleAt(desc) :
                          \A j \in OfficialSampleAt(desc) : i <= j
                  sample_lang == Lower(desc[m + 1])
              IN IF sample_lang \in SAMPLE_LANGUAGES
                 THEN <<[label |-> sample_lang, w |-> 5]>> ELSE <<>>
         ELSE <<>>
    ELSE <<>>

\* 7. SDKs field as weak tiebreaker (weight 1, only if single SDK)
LangSdks(sdks) ==
    IF Len(sdks) = 1 /\ sdks[1] \in DOMAIN SDK_TO_LANGUAGE
    THEN <<[label |-> SDK_TO_LANGUAGE[sdks[1]], w |-> 1]>> ELSE <<>>

\* the contributions infer_language adds to candidates, in the order it adds them
LanguageContributions(a) ==
    LET desc == Get(a, "description", EmptyText)
    IN LangFramework(a) \o LangTags(Get(a, "tags", <<>>)) \o LangRepo(a)
         \o LangNameSlug(a) \o LangDesc(desc) \o LangOfficial(desc)
         \o LangSdks(Get(a, "sdks", <<>>))

\* the candidates Counter infer_language has built when it reaches the gate
LanguageTally(a) == AddAll(<<>>, LanguageContributions(a), 1)

\* the gate of infer_language without its tie check
LanguageGateNoTie(candidates) ==
    IF candidates = <<>> THEN None
    ELSE LET top == MostCommon(candidates, 1)[1]
         IN IF top.n < 2 THEN None ELSE top.label

\* the gate of infer_language without its floor of 2
LanguageGateNoFloor(candidates) ==
    IF candidates = <<>> THEN None
    ELSE LET top == MostCommon(candidates, 1)[1]
             top2 == MostCommon(candidates, 2)
         IN IF Len(top2) = 2 /\ top2[1].n = top2[2].n THEN None
            ELSE top.label

\* lines 253-266: empty tally, floor of 2, tie at the top
LanguageGate(candidates) ==
    IF candidates = <<>> THEN None
    ELSE LET top == MostCommon(candidates, 1)[1]
             top2 == MostCommon(candidates, 2)
         IN IF top.n < 2 THEN None
            ELSE IF Len(top2) = 2 /\ top2[1].n = top2[2].n THEN None
            ELSE top.label

\* the exceptions infer_language raises on null fields: iterating None (tags),
\* re.search on None (description), len(None) (sdks)
LanguageRaises(a) ==
    \/ IsNone(a, "tags")
    \/ IsNone(a, "description")
    \/ IsNone(a, "sdks")

infer_language(a) ==
    IF LanguageRaises(a) THEN Fault ELSE LanguageGate(LanguageTally(a))

----------------------------------------------------------------------------
(* Category inference *)

\* Description keyword patterns for category (searched with re.IGNORECASE):
\* per pattern, the lowercased phrases it matches in
DESC_CATEGORY_PATTERNS == <<
    [toks |-> {"rag", "search"}, label |-> "search"],
    [toks |-> {"security"}, label |-> "security"],
    [toks |-> {"bank", "financ"}, label |-> "finance"],
    [toks |-> {"travel", "trip"}, label |-> "travel"],
    [toks |-> {"image", "media"}, label |-> "media-content"],
    [toks |-> {"coding"}, label |-> "code-generation"],
    [toks |-> {"analytics"}, label |-> "data-analytics"],
    [toks |-> {"chatbot"}, label |-> "conversational"],
    [toks |-> {"docker", "infra"}, label |-> "infrastructure"],
    [toks |-> {"multi-agent", "orchestrat"}, label |-> "orchestration"],
    [toks |-> {"go implementation", "openai agent sdk", "sdk", "template"}, label |-> "utility"],
    [toks |-> {"demo", "docs", "sample"}, label |-> "utility"],
    [toks |-> {}, label |-> "utility"],
    [toks |-> {"adk", "google adk", "openai agent sdk", "sdk"}, label |-> "utility"],
    [toks |-> {}, label |-> "utility"],
    [toks |-> {"testing"}, label |-> "utility"],
    [toks |-> {"template"}, label |-> "utility"],
    [toks |-> {"music"}, label |-> "media-content"],
    [toks |-> {"governance"}, label |-> "infrastructure"],
    [toks |-> {"dashboard"}, label |-> "data-analytics"],
    [toks |-> {"gateway"}, label |-> "infrastructure"],
    [toks |-> {"registry"}, label |-> "infrastructure"],
    [toks |-> {"legal"}, label |-> "enterprise"]
>>

\* Tag-based category rules: (set of tags to match, category, minimum matches)
TAG_CATEGORY_RULES == <<
    [tags |-> {"business", "commerce"}, category |-> "enterprise", min_matches |-> 1],
    [tags |-> {"banking", "blockchain", "crypto", "defi", "escrow", "finance", "fintech", "payment", "payments", "trading"}, category |-> "finance", min_matches |-> 1],
    [tags |-> {"google-search", "rag", "retrieval", "search", "semantic-search", "web-search"}, category |-> "search", min_matches |-> 1],
    [tags |-> {"agent-security", "auth", "authentication", "cybersecurity", "security", "vulnerability"}, category |-> "security", min_matches |-> 1],
    [tags |-> {"aws", "azure", "ci-cd", "cloud", "deployment", "devops", "docker", "gcp", "infrastructure", "k8s", "kubernetes"}, category |-> "infrastructure", min_matches |-> 1],
    [tags |-> {"audio", "image", "image-generation", "media", "text-to-image", "text-to-speech", "tts", "video"}, category |-> "media-content", min_matches |-> 1],
    [tags |-> {"code", "code-assistant", "code-generation", "code-review", "coding", "github-copilot"}, category |-> "code-generation", min_matches |-> 1],
    [tags |-> {"analytics", "data", "data-analysis", "data-analytics", "data-science", "dataset", "visualization"}, category |-> "data-analytics", min_matches |-> 1],
    [tags |-> {"chat", "chatbot", "conversation", "conversational", "dialog", "dialogue"}, category |-> "conversational", min_matches |-> 1],
    [tags |-> {"booking", "flight", "hotel", "tourism", "travel", "trip"}, category |-> "travel", min_matches |-> 1],
    [tags |-> {"agent-collaboration", "agent-orchestration", "multi-agent", "multi-agent-systems", "orchestration"}, category |-> "orchestration", min_matches |-> 1],
    [tags |-> {"boilerplate", "cli", "framework", "library", "sdk", "starter", "template", "tool", "utility"}, category |-> "utility", min_matches |-> 1],
    [tags |-> {"a2a-protocol", "agent-protocol", "agent-to-agent", "agent2agent", "agentic-framework", "llm-protocol", "m2m-protocol", "protocol"}, category |-> "utility", min_matches |-> 1],
    [tags |-> {"amqp", "grpc", "json-rpc", "mqtt", "websocket"}, category |-> "infrastructure", min_matches |-> 1],
    [tags |-> {"demo", "example", "hello-world", "learning", "sample", "scaffold", "starter", "tutorial"}, category |-> "utility", min_matches |-> 1],
    [tags |-> {"browser", "browser-automation", "playwright", "puppeteer", "selenium", "web-testing"}, category |-> "infrastructure", min_matches |-> 1],
    [tags |-> {"a2a-discovery", "agent-discovery", "agent-marketplace", "agent-registry", "discovery", "registry"}, category |-> "infrastructure", min_matches |-> 1],
    [tags |-> {"gateway", "middleware", "proxy", "router", "routing"}, category |-> "infrastructure", min_matches |-> 1],
    [tags |-> {"agent-platform", "aiops", "governance", "guardrails"}, category |-> "infrastructure", min_matches |-> 1],
    [tags |-> {"mcp-client", "mcp-server"}, category |-> "infrastructure", min_matches |-> 1],
    [tags |-> {"ranking-algorithm", "ranking-system"}, category |-> "infrastructure", min_matches |-> 1],
    [tags |-> {"adapter", "feature-pack", "wrapper"}, category |-> "utility", min_matches |-> 1],
    [tags |-> {"contract", "legal", "legal-ai", "legal-tech"}, category |-> "enterprise", min_matches |-> 1],
    [tags |-> {"machinery", "manufacturing"}, category |-> "enterprise", min_matches |-> 1],
    [tags |-> {"healthcare", "medical"}, category |-> "enterprise", min_matches |-> 1],
    [tags |-> {"education", "learning", "tutoring"}, category |-> "enterprise", min_matches |-> 1],
    [tags |-> {"property", "real-estate"}, category |-> "enterprise", min_matches |-> 1]
>>

\* 4. Name/slug checks (lines 385-404), searched in the lowercased name and slug:
\* per check, the lowercased phrases its pattern matches in
NAME_SLUG_CATEGORY_CHECKS == <<
    [toks |-> {"rag", "search"}, label |-> "search"],
    [toks |-> {"auth", "security"}, label |-> "security"],
    [toks |-> {"bank", "financ", "finance", "trade"}, label |-> "finance"],
    [toks |-> {"travel", "trip"}, label |-> "travel"],
    [toks |-> {"image", "media"}, label |-> "media-content"],
    [toks |-> {"code", "coding"}, label |-> "code-generation"],
    [toks |-> {"analytics", "data"}, label |-> "data-analytics"],
    [toks |-> {"chat", "chatbot"}, label |-> "conversational"],
    [toks |-> {"multi-agent", "orchestrat"}, label |-> "orchestration"],
    [toks |-> {"docker", "infra"}, label |-> "infrastructure"]
>>

\* template|sample|demo|starter|scaffold|boilerplate|hello.?world (line 411)
UTILITY_NAME_TOKS == {"demo", "hello world", "sample", "template"}

\* "Lifie" in provider_name, for the provider names of the vocabulary
ContainsLifie(provider_name) == provider_name \in {"Lifie AI", "Lifie"}

\* "lifie" in url, for the provider urls of the vocabulary
ContainsLifieLower(url) == url \in {"https://lifie.ai", "lifie ai"}

InList(x, list) == \E i \in DOMAIN list : list[i] = x

ProviderName(a) ==
    IF "provider" \in a.absent \/ "provider.name" \in a.absent THEN "" ELSE a.provider.name

ProviderUrl(a) ==
    IF "provider" \in a.absent \/ "provider.url" \in a.absent THEN "" ELSE a.provider.url

\* an exception is raised inside is_lifie_business_agent: provider is None
\* (None.get), its name is None ("Lifie" in None), or its url is None and the
\* name does not already decide the disjunction
LifieRaises(a) ==
    \/ IsNone(a, "provider")
    \/ /\ "provider" \notin a.absent
       /\ \/ IsNone(a, "provider.name")
          \/ IsNone(a, "provider.url") /\ ~ContainsLifie(ProviderName(a))

\* Special: business/commerce agents from Lifie.ai hub get "enterprise"
is_lifie_business_agent(a) ==
    LET provider_name == ProviderName(a)
        tags == Get(a, "tags", <<>>)
    IN /\ ContainsLifie(provider_name) \/ ContainsLifieLower(ProviderUrl(a))
       /\ InList("business", tags) \/ InList("commerce", tags)

\* set(t.lower() for t in tags)
LowerSet(tags) == {Lower(tags[i]) : i \in DOMAIN tags}

\* 1. Tag-based rules (weight 3 per matching tag)
CatTagRules(tags) ==
    LET hits == SelectSeq(TAG_CATEGORY_RULES,
                          LAMBDA rule : Cardinality(tags \cap rule.tags) >= rule.min_matches)
    IN [i \in DOMAIN hits |->
            [label |-> hits[i].category, w |-> 3 * Cardinality(tags \cap hits[i].tags)]]

\* 2. Description patterns (weight 2), re.IGNORECASE
CatDesc(desc) == TableHits(DESC_CATEGORY_PATTERNS, LowerText(desc), 2)

\* the rules loop over one skill's tags (weight 2 per matching rule)
CatSkillRules(skill_tags) ==
    LET hits == SelectSeq(TAG_CATEGORY_RULES,
                          LAMBDA rule : Cardinality(skill_tags \cap rule.tags) >= rule.min_matches)
    IN [i \in DOMAIN hits |-> [label |-> hits[i].category, w |-> 2]]

\* 3. Skill tags
RECURSIVE CatSkills(_, _)
CatSkills(skills, j) ==
    IF j > Len(skills) THEN <<>>
    ELSE CatSkillRules(LowerSet(Get(skills[j], "tags", <<>>))) \o CatSkills(skills, j + 1)

\* 4. Name/slug patterns (weight 1), then the two utility bonuses (weight 2)
CatNameSlug(a, tags) ==
    LET combined == LowerText(Get(a, "name", EmptyText)) \o LowerText(Get(a, "slug", EmptyText))
    IN TableHits(NAME_SLUG_CATEGORY_CHECKS, combined, 1)
         \o (IF "official-sample" \in tags THEN <<[label |-> "utility", w |-> 2]>> ELSE <<>>)
         \o (IF Search(UTILITY_NAME_TOKS, combined)
             THEN <<[label |-> "utility", w |-> 2]>> ELSE <<>>)

\* the contributions infer_category adds to candidates, in the order it adds them
CategoryContributions(a) ==
    LET tags == LowerSet(Get(a, "tags", <<>>))
    IN CatTagRules(tags) \o CatDesc(Get(a, "description", EmptyText))
         \o CatSkills(Get(a, "skills", <<>>), 1) \o CatNameSlug(a, tags)

\* the candidates Counter infer_category has built when it reaches the gate
CategoryTally(a) == AddAll(<<>>, CategoryContributions(a), 1)

\* lines 414-422: empty tally, floor of 2, no tie check
CategoryGate(candidates) ==
    IF candidates = <<>> THEN None
    ELSE LET top == MostCommon(candidates, 1)[1]
         IN IF top.n < 2 THEN None ELSE top.label

\* exceptions raised before the special case: iterating None (tags), None.lower()
CategoryRaisesEarly(a) ==
    \/ IsNone(a, "tags")
    \/ IsNone(a, "name")
    \/ IsNone(a, "slug")

\* exceptions raised while scoring: re.search on None (description), iterating
\* None (skills, a skill's tags)
CategoryRaisesLate(a) ==
    \/ IsNone(a, "description")
    \/ IsNone(a, "skills")
    \/ LET skills == Get(a, "skills", <<>>)
       IN \E j \in DOMAIN skills : IsNone(skills[j], "tags")

\* infer_category that scores before it looks at the special case
infer_category_score_first(a) ==
    IF CategoryRaisesEarly(a) \/ CategoryRaisesLate(a) THEN Fault
    ELSE IF CategoryGate(CategoryTally(a)) # None THEN CategoryGate(CategoryTally(a))
    ELSE IF LifieRaises(a) THEN Fault
    ELSE IF is_lifie_business_agent(a) THEN "enterprise"
    ELSE None

infer_category(a) ==
    IF CategoryRaisesEarly(a) THEN Fault
    ELSE IF LifieRaises(a) THEN Fault
    ELSE IF is_lifie_business_agent(a) THEN "enterprise"
    ELSE IF CategoryRaisesLate(a) THEN Fault
    ELSE CategoryGate(CategoryTally(a))

----------------------------------------------------------------------------
(* Framework inference *)

\* Patterns to detect frameworks in text (searched with re.IGNORECASE): per
\* pattern, the lowercased phrases it matches in
FRAMEWORK_DETECTION == <<
    [toks |-> {"google adk"}, label |-> "google-adk"],
    [toks |-> {"adk", "google adk"}, label |-> "google-adk"],
    [toks |-> {"langgraph"}, label |-> "langgraph"],
    [toks |-> {"langchain"}, label |-> "langchain"],
    [toks |-> {"crewai"}, label |-> "crewai"],
    [toks |-> {"crew ai", "crewai"}, label |-> "crewai"],
    [toks |-> {"spring boot", "springboot"}, label |-> "spring-boot"],
    [toks |-> {"spring ai"}, label |-> "spring-boot"],
    [toks |-> {"springframework"}, label |-> "spring-boot"],
    [toks |-> {"springboot"}, label |-> "spring-boot"],
    [toks |-> {"autogen"}, label |-> "autogen"],
    [toks |-> {"ag2"}, label |-> "autogen"],
    [toks |-> {"semantic kernel"}, label |-> "semantic-kernel"],
    [toks |-> {"llama index", "llamaindex"}, label |-> "llamaindex"],
    [toks |-> {"llamaindex"}, label |-> "llamaindex"],
    [toks |-> {"fastapi"}, label |-> "fastapi"],
    [toks |-> {"nestjs"}, label |-> "nestjs"],
    [toks |-> {"genkit"}, label |-> "genkit"],
    [toks |-> {"openai agent sdk", "openai agents"}, label |-> "openai-agents"],
    [toks |-> {"openai agent sdk"}, label |-> "openai-agents"],
    [toks |-> {"pydantic ai"}, label |-> "pydantic-ai"],
    [toks |-> {"strands agents"}, label |-> "strands-agents"]
>>

\* Tags that directly indicate framework
TAG_TO_FRAMEWORK ==
       ("adk" :> "google-adk")
    @@ ("adk-google" :> "google-adk")
    @@ ("adk-python" :> "google-adk")
    @@ ("google-adk" :> "google-adk")
    @@ ("langgraph" :> "langgraph")
    @@ ("langchain" :> "langchain")
    @@ ("crewai" :> "crewai")
    @@ ("crew-ai" :> "crewai")
    @@ ("spring" :> "spring-boot")
    @@ ("spring-boot" :> "spring-boot")
    @@ ("springboot" :> "spring-boot")
    @@ ("springboot3" :> "spring-boot")
    @@ ("springframework" :> "spring-boot")
    @@ ("spring-ai" :> "spring-boot")
    @@ ("autogen" :> "autogen")
    @@ ("ag2" :> "autogen")
    @@ ("semantic-kernel" :> "semantic-kernel")
    @@ ("llamaindex" :> "llamaindex")
    @@ ("llama-index" :> "llamaindex")
    @@ ("fastapi" :> "fastapi")
    @@ ("nestjs" :> "nestjs")
    @@ ("genkit" :> "genkit")
    @@ ("openai-agents-sdk" :> "openai-agents")
    @@ ("openai-agent-sdk" :> "openai-agents")
    @@ ("openai-agents" :> "openai-agents")
    @@ ("pydantic-ai" :> "pydantic-ai")
    @@ ("strands-agents" :> "strands-agents")
    @@ ("strands" :> "strands-agents")


ADK_TAGS == {"adk", "adk-google", "adk-python", "google-adk"}

\* 1. Tag-based (weight 3)
FwTags(tags) ==
    LET hits == SelectSeq(tags, LAMBDA tag : Lower(tag) \in DOMAIN TAG_TO_FRAMEWORK)
    IN [i \in DOMAIN hits |-> [label |-> TAG_TO_FRAMEWORK[Lower(hits[i])], w |-> 3]]

\* f"{name} {slug} {desc} {repo}": the repository's segments are phrases of the
\* text (a "/" ends a word as a space does)
AllText(a) ==
    Format(a, "name") \o Format(a, "slug") \o Format(a, "description")
        \o (IF IsNone(a, "repository") THEN <<"None">> ELSE Get(a, "repository", EmptyRepo))

\* 2. Text-based patterns in description/name/slug/repo (weight 2), re.IGNORECASE
FwText(a) == TableHits(FRAMEWORK_DETECTION, LowerText(AllText(a)), 2)

\* desc.split(":")[-1].strip().lower() if ":" in desc else ""
SampleName(desc) ==
    IF InList(":", desc)
    THEN LET last == CHOOSE i \in DOMAIN desc :
                        desc[i] = ":" /\ \A j \in DOMAIN desc : desc[j] = ":" => j <= i
         IN LowerText(SubSeq(desc, last + 1, Len(desc)))
    ELSE EmptyText

\* the official sample parsing left out
FwOfficialDropped(desc) == <<>>

\* 3. Official sample description parsing (weight 4)
FwOfficial(desc) ==
    IF InList("Official A2A", desc)
    THEN TableHits(FRAMEWORK_DETECTION, SampleName(desc), 4)
    ELSE <<>>

\* the contributions infer_framework adds to candidates, in the order it adds them
FrameworkContributions(a) ==
    FwTags(Get(a, "tags", <<>>)) \o FwText(a) \o FwOfficial(Get(a, "description", EmptyText))

\* the candidates Counter infer_framework has built when it reaches the gate
FrameworkTally(a) == AddAll(<<>>, FrameworkContributions(a), 1)

has_adk_tag(tags) == \E i \in DOMAIN tags : Lower(tags[i]) \in ADK_TAGS

\* the gate of infer_framework without the google-adk check of lines 531-535
FrameworkGateNoVeto(candidates, tags) ==
    IF candidates = <<>> THEN None
    ELSE LET top == MostCommon(candidates, 1)[1]
         IN IF top.n < 2 THEN None ELSE top.label

\* lines 521-537: empty tally, floor of 2, the google-adk check; no tie check
FrameworkGate(candidates, tags) ==
    IF candidates = <<>> THEN None
    ELSE LET top == MostCommon(candidates, 1)[1]
         IN IF top.n < 2 THEN None
            ELSE IF top.label = "google-adk" /\ top.n < 3 /\ ~has_adk_tag(tags) THEN None
            ELSE top.label

\* the exceptions infer_framework raises on null fields: iterating None (tags),
\* "Official A2A" in None (description)
FrameworkRaises(a) ==
    \/ IsNone(a, "tags")
    \/ IsNone(a, "description")

infer_framework(a) ==
    IF FrameworkRaises(a) THEN Fault
    ELSE FrameworkGate(FrameworkTally(a), Get(a, "tags", <<>>))

----------------------------------------------------------------------------
(* Agent records *)

MaxTags == 2     \* longest tags list of an input record
MaxDesc == 3     \* most phrases in an input record's description after its opening
MaxSkills == 2   \* most skills of an input record
MaxFiles == 2    \* most agent files in the store the driver walks

SeqsUpTo(S, n) == UNION {[1..k -> S] : k \in 0..n}

\* an agent with no signal at all, every axis at its sentinel
BaseAgent ==
    [language |-> "unknown", category |-> "general", framework |-> "custom",
     tags |-> <<>>, name |-> <<>>, slug |-> <<>>, description |-> <<>>,
     repository |-> EmptyRepo, sdks |-> <<>>, skills |-> <<>>,
     provider |-> [name |-> "", url |-> ""],
     absent |-> {}, null |-> {}]

Skill(tags) == [tags |-> tags, absent |-> {}, null |-> {}]

\* "https://github.com/acme/A2A-Go/", "github.com/acme/a2a-go"
GithubGoRepo == <<"https:", "", "github.com", "acme", "A2A-Go", "">>
ShortGoRepo == <<"github.com", "acme", "a2a-go">>

\* descriptions: with or without the "Official A2A" opening, then up to
\* MaxDesc phrases
Descriptions(phrases) ==
    {open \o d : open \in {<<>>, <<"Official A2A">>}, d \in SeqsUpTo(phrases, MaxDesc)}

\* the records infer_language is studied on
LanguageInputs ==
    {[BaseAgent EXCEPT !.framework = fw, !.tags = t, !.repository = r, !.name = n,
                       !.description = d, !.sdks = s] :
        fw \in {"custom", "crewai"},
        t \in SeqsUpTo({"go", "rust", "Python"}, MaxTags),
        r \in {EmptyRepo, GithubGoRepo, ShortGoRepo},
        n \in {<<>>, <<"Rust">>},
        d \in Descriptions({"Rust", "sample"}),
        s \in {<<>>, <<"go">>}}

Providers ==
    {[name |-> "", url |-> ""], [name |-> "Lifie AI", url |-> ""],
     [name |-> "LIFIE AI", url |-> ""], [name |-> "", url |-> "https://lifie.ai"],
     [name |-> "", url |-> "https://Lifie.ai"]}

\* the records infer_category is studied on
CategoryInputs ==
    {[BaseAgent EXCEPT !.tags = t, !.description = d, !.name = n, !.skills = sk,
                       !.provider = p] :
        t \in SeqsUpTo({"business", "Search", "finance"}, MaxTags),
        d \in {<<>>, <<"Search">>, <<"bank">>, <<"demo">>},
        n \in {<<>>, <<"chat">>},
        sk \in SeqsUpTo({Skill(<<"finance">>), Skill(<<"Search">>)}, MaxSkills),
        p \in Providers}

\* the records infer_framework is studied on
FrameworkInputs ==
    {[BaseAgent EXCEPT !.tags = t, !.description = d, !.name = n] :
        t \in SeqsUpTo({"langgraph", "crewai", "google-adk"}, MaxTags),
        d \in Descriptions({":", "Crewai", "google adk", "langgraph"}),
        n \in {<<>>, <<"adk">>}}

\* the keys the inference functions inspect
InspectedKeys ==
    {"tags", "name", "slug", "description", "repository", "framework", "sdks",
     "skills", "provider", "provider.name", "provider.url"}

\* a record with a signal in every inspected field
RichAgent ==
    [BaseAgent EXCEPT !.framework = "crewai", !.tags = <<"business", "go">>,
                      !.name = <<"chat">>, !.slug = <<"adk">>,
                      !.description = <<"Official A2A", "Rust", "sample", ":", "Crewai">>,
                      !.repository = GithubGoRepo, !.sdks = <<"go">>,
                      !.skills = <<Skill(<<"finance">>)>>,
                      !.provider = [name |-> "Lifie AI", url |-> "https://lifie.ai"]]

\* RichAgent with any set of inspected keys missing, or any set of them null,
\* or with a skill whose tags are missing or null
MalformedInputs ==
    {[RichAgent EXCEPT !.absent = ks] : ks \in SUBSET InspectedKeys}
    \cup {[RichAgent EXCEPT !.null = ks] : ks \in SUBSET InspectedKeys}
    \cup {[RichAgent EXCEPT !.skills = <<[tags |-> <<>>, absent |-> ab, null |-> nl]>>,
                            !.provider = [name |-> "", url |-> ""]] :
            ab \in SUBSET {"tags"}, nl \in SUBSET {"tags"}}

\* no inspected field of the record is null: every field that is present has the
\* type the data model gives it
WellTyped(a) ==
    /\ a.null = {}
    /\ \A j \in DOMAIN a.skills : a.skills[j].null = {}

InferInputs == LanguageInputs \cup CategoryInputs \cup FrameworkInputs \cup MalformedInputs

ZeroStats ==
    [language_changed |-> 0, category_changed |-> 0, framework_changed |-> 0,
     files_modified |-> 0,
     language_details |-> <<>>, category_details |-> <<>>, framework_details |-> <<>>,
     language_still_unknown |-> 0, category_still_general |-> 0,
     framework_still_custom |-> 0]

\* the driver is not running
DriverOff ==
    /\ files = <<>>
    /\ store = <<>>
    /\ idx = 0
    /\ pc = "off"
    /\ orig = BaseAgent
    /\ modified = FALSE
    /\ file_changes = <<>>
    /\ invoked = {}
    /\ stats = ZeroStats

driverVars == <<store, files, idx, pc, orig, modified, file_changes, invoked, stats>>

----------------------------------------------------------------------------
(* The inference functions applied to a record *)

InitInfer ==
    /\ agent \in InferInputs
    /\ called = "none"
    /\ result = None
    /\ DriverOff

CallInferLanguage ==
    /\ pc = "off"
    /\ called = "none"
    /\ called' = "language"
    /\ result' = infer_language(agent)
    /\ UNCHANGED <<agent, driverVars>>

CallInferCategory ==
    /\ pc = "off"
    /\ called = "none"
    /\ called' = "category"
    /\ result' = infer_category(agent)
    /\ UNCHANGED <<agent, driverVars>>

CallInferFramework ==
    /\ pc = "off"
    /\ called = "none"
    /\ called' = "framework"
    /\ result' = infer_framework(agent)
    /\ UNCHANGED <<agent, driverVars>>

NextInfer == CallInferLanguage \/ CallInferCategory \/ CallInferFramework

SpecInfer == InitInfer /\ [][NextInfer]_vars

----------------------------------------------------------------------------
(* The driver: enrich_agents *)

\* the records the store holds: every combination of resolved / sentinel axes,
\* without signals, with a framework tag only, or with a tag for every axis;
\* and one record whose tags are null
DriverRecords ==
    {[BaseAgent EXCEPT !.language = l, !.category = c, !.framework = f, !.tags = t] :
        l \in {"unknown", "go"},
        c \in {"general", "finance"},
        f \in {"custom", "crewai"},
        t \in {<<>>, <<"crewai">>, <<"python", "Search", "langgraph">>}}
    \cup {[BaseAgent EXCEPT !.null = {"tags"}]}

Init ==
    /\ files \in SeqsUpTo(DriverRecords, MaxFiles)
    /\ store = files
    /\ idx = 1
    /\ pc = "read"
    /\ agent = BaseAgent
    /\ orig = BaseAgent
    /\ modified = FALSE
    /\ file_changes = <<>>
    /\ invoked = {}
    /\ stats = ZeroStats
    /\ called = "none"
    /\ result = None

\* for filepath in files: agent = json.load(f); modified = False; file_changes = []
ReadFile ==
    /\ pc = "read"
    /\ idx <= Len(files)
    /\ agent' = files[idx]
    /\ orig' = files[idx]
    /\ modified' = FALSE
    /\ file_changes' = <<>>
    /\ invoked' = {}
    /\ pc' = "language"
    /\ UNCHANGED <<store, files, idx, stats, called, result>>

\* an inference function raised: the exception ends the program
Crash(axis) ==
    /\ pc' = "crashed"
    /\ invoked' = invoked \cup {axis}
    /\ UNCHANGED <<agent, modified, file_changes, stats>>

\* 1. Enrich language, with the check of the sentinel left out
EnrichLanguageUnchecked ==
    /\ pc = "language"
    /\ LET new_lang == infer_language(agent)
       IN IF new_lang = Fault THEN Crash("language")
          ELSE /\ invoked' = invoked \cup {"language"}
               /\ pc' = "category"
               /\ IF new_lang # None
                  THEN /\ agent' = [agent EXCEPT !.language = new_lang]
                       /\ modified' = TRUE
                       /\ stats' = [stats EXCEPT
                                      !.language_changed = @ + 1,
                                      !.language_details = CounterAdd(@, new_lang, 1)]
                       /\ file_changes' =
                            Append(file_changes, <<"language", agent.language, new_lang>>)
                  ELSE /\ stats' = [stats EXCEPT !.language_still_unknown = @ + 1]
                       /\ UNCHANGED <<agent, modified, file_changes>>
    /\ UNCHANGED <<store, files, idx, orig, called, result>>

\* 1. Enrich language (lines 572-583)
EnrichLanguage ==
    /\ pc = "language"
    /\ IF ~IsNone(agent, "language") /\ Get(agent, "language", None) = "unknown"
       THEN LET new_lang == infer_language(agent)
            IN IF new_lang = Fault THEN Crash("language")
               ELSE /\ invoked' = invoked \cup {"language"}
                    /\ pc' = "category"
                    /\ IF new_lang # None
                       THEN /\ agent' = [agent EXCEPT !.language = new_lang]
                            /\ modified' = TRUE
                            /\ stats' = [stats EXCEPT
                                           !.language_changed = @ + 1,
                                           !.language_details = CounterAdd(@, new_lang, 1)]
                            /\ file_changes' =
                                 Append(file_changes, <<"language", agent.language, new_lang>>)
                       ELSE /\ stats' = [stats EXCEPT !.language_still_unknown = @ + 1]
                            /\ UNCHANGED <<agent, modified, file_changes>>
       ELSE /\ pc' = "category"
            /\ UNCHANGED <<agent, modified, file_changes, invoked, stats>>
    /\ UNCHANGED <<store, files, idx, orig, called, result>>

\* 2. Enrich category, with the count of the records left at "general" left out
EnrichCategoryNoStill ==
    /\ pc = "category"
    /\ IF ~IsNone(agent, "category") /\ Get(agent, "category", None) = "general"
       THEN LET new_cat == infer_category(agent)
            IN IF new_cat = Fault THEN Crash("category")
               ELSE /\ invoked' = invoked \cup {"category"}
                    /\ pc' = "framework"
                    /\ IF new_cat # None
                       THEN /\ agent' = [agent EXCEPT !.category = new_cat]
                            /\ modified' = TRUE
                            /\ stats' = [stats EXCEPT
                                           !.category_changed = @ + 1,
                                           !.category_details = CounterAdd(@, new_cat, 1)]
                            /\ file_changes' =
                                 Append(file_changes, <<"category", agent.category, new_cat>>)
                       ELSE UNCHANGED <<agent, modified, file_changes, stats>>
       ELSE /\ pc' = "framework"
            /\ UNCHANGED <<agent, modified, file_changes, invoked, stats>>
    /\ UNCHANGED <<store, files, idx, orig, called, result>>

\* 2. Enrich category (lines 585-596)
EnrichCategory ==
    /\ pc = "category"
    /\ IF ~IsNone(agent, "category") /\ Get(agent, "category", None) = "general"
       THEN LET new_cat == infer_category(agent)
            IN IF new_cat = Fault THEN Crash("category")
               ELSE /\ invoked' = invoked \cup {"category"}
                    /\ pc' = "framework"
                    /\ IF new_cat # None
                       THEN /\ agent' = [agent EXCEPT !.category = new_cat]
                            /\ modified' = TRUE
                            /\ stats' = [stats EXCEPT
                                           !.category_changed = @ + 1,
                                           !.category_details = CounterAdd(@, new_cat, 1)]
                            /\ file_changes' =
                                 Append(file_changes, <<"category", agent.category, new_cat>>)
                       ELSE /\ stats' = [stats EXCEPT !.category_still_general = @ + 1]
                            /\ UNCHANGED <<agent, modified, file_changes>>
       ELSE /\ pc' = "framework"
            /\ UNCHANGED <<agent, modified, file_changes, invoked, stats>>
    /\ UNCHANGED <<store, files, idx, orig, called, result>>

\* 3. Enrich framework, and then the language again from the new framework
EnrichFrameworkCascade ==
    /\ pc = "framework"
    /\ IF ~IsNone(agent, "framework") /\ Get(agent, "framework", None) = "custom"
       THEN LET new_fw == infer_framework(agent)
                with_fw == [agent EXCEPT !.framework = new_fw]
                new_lang == infer_language(with_fw)
            IN IF new_fw = Fault THEN Crash("framework")
               ELSE /\ invoked' = invoked \cup {"framework"}
                    /\ pc' = "write"
                    /\ IF new_fw # None
                       THEN /\ agent' = IF agent.language = "unknown" /\ new_lang # None
                                        THEN [with_fw EXCEPT !.language = new_lang]
                                        ELSE with_fw
                            /\ modified' = TRUE
                            /\ stats' = [stats EXCEPT
                                           !.framework_changed = @ + 1,
                                           !.framework_details = CounterAdd(@, new_fw, 1)]
                            /\ file_changes' =
                                 Append(file_changes, <<"framework", agent.framework, new_fw>>)
                       ELSE /\ stats' = [stats EXCEPT !.framework_still_custom = @ + 1]
                            /\ UNCHANGED <<agent, modified, file_changes>>
       ELSE /\ pc' = "write"
            /\ UNCHANGED <<agent, modified, file_changes, invoked, stats>>
    /\ UNCHANGED <<store, files, idx, orig, called, result>>

\* 3. Enrich framework (lines 598-609)
EnrichFramework ==
    /\ pc = "framework"
    /\ IF ~IsNone(agent, "framework") /\ Get(agent, "framework", None) = "custom"
       THEN LET new_fw == infer_framework(agent)
            IN IF new_fw = Fault THEN Crash("framework")
               ELSE /\ invoked' = invoked \cup {"framework"}
                    /\ pc' = "write"
                    /\ IF new_fw # None
                       THEN /\ agent' = [agent EXCEPT !.framework = new_fw]
                            /\ modified' = TRUE
                            /\ stats' = [stats EXCEPT
                                           !.framework_changed = @ + 1,
                                           !.framework_details = CounterAdd(@, new_fw, 1)]
                            /\ file_changes' =
                                 Append(file_changes, <<"framework", agent.framework, new_fw>>)
                       ELSE /\ stats' = [stats EXCEPT !.framework_still_custom = @ + 1]
                            /\ UNCHANGED <<agent, modified, file_changes>>
       ELSE /\ pc' = "write"
            /\ UNCHANGED <<agent, modified, file_changes, invoked, stats>>
    /\ UNCHANGED <<store, files, idx, orig, called, result>>

\* Write back if modified (lines 611-618), then the next file
WriteBack ==
    /\ pc = "write"
    /\ IF modified
       THEN /\ stats' = [stats EXCEPT !.files_modified = @ + 1]
            /\ files' = [files EXCEPT ![idx] = agent]
       ELSE UNCHANGED <<stats, files>>
    /\ idx' = idx + 1
    /\ pc' = "read"
    /\ UNCHANGED <<store, agent, orig, modified, file_changes, invoked, called, result>>

\* the loop is over: the changes and the summary are printed (lines 620-654)
PrintSummary ==
    /\ pc = "read"
    /\ idx > Len(files)
    /\ pc' = "done"
    /\ UNCHANGED <<agent, called, result, store, files, idx, orig, modified, file_changes,
                   invoked, stats>>

Next ==
    \/ ReadFile
    \/ EnrichLanguage
    \/ EnrichCategory
    \/ EnrichFramework
    \/ WriteBack
    \/ PrintSummary

Spec == Init /\ [][Next]_vars

----------------------------------------------------------------------------
(* Properties of the driver *)

Axes == {"language", "category", "framework"}

Sentinel(axis) ==
    CASE axis = "language" -> "unknown"
      [] axis = "category" -> "general"
      [] axis = "framework" -> "custom"

Infer(axis, a) ==
    CASE axis = "language" -> infer_language(a)
      [] axis = "category" -> infer_category(a)
      [] axis = "framework" -> infer_framework(a)

\* the axes the driver has gone past for the record it holds
AxesPassed ==
    CASE pc = "category" -> {"language"}
      [] pc = "framework" -> {"language", "category"}
      [] pc = "write" -> Axes
      [] OTHER -> {}

\* C1: an axis whose value is not the sentinel when the driver checks it is not
\* inferred and keeps its value: once the driver is past the axis, inference was
\* not invoked for it and the record holds the value it was read with, and the
\* record written back still holds it.
C1_ResolvedAxisUntouched ==
    /\ \A axis \in AxesPassed :
          orig[axis] # Sentinel(axis)
              => axis \notin invoked /\ agent[axis] = orig[axis]
    /\ (pc \in {"read", "done"} /\ idx > 1)
          => \A axis \in Axes :
                orig[axis] # Sentinel(axis) => files[idx - 1][axis] = orig[axis]

\* a record with every axis resolved whose signals point to three other labels
\* has been through the pass unchanged
C1_Witness ==
    /\ pc = "write"
    /\ \A axis \in Axes :
          /\ orig[axis] # Sentinel(axis)
          /\ Infer(axis, orig) \notin {None, Fault, orig[axis]}
    /\ agent = orig

\* the value an axis must end the pass with, from the record as it was read
Expected(axis, a) ==
    IF a[axis] = Sentinel(axis) /\ Infer(axis, a) # None THEN Infer(axis, a) ELSE a[axis]

\* C8: at the end of a record's pass every axis holds what its own inference
\* function returns on the record as it was read (or the value read, when the
\* axis was resolved or inference gave no decision), whatever the driver did to
\* the other axes before.
C8_AxisIndependence ==
    pc = "write" => \A axis \in Axes : agent[axis] = Expected(axis, orig)

\* a pass that changed all three axes of one record
C8_Witness ==
    /\ pc = "write"
    /\ \A axis \in Axes : orig[axis] = Sentinel(axis) /\ agent[axis] # orig[axis]

----------------------------------------------------------------------------
(* Properties of the inference functions *)

\* two distinct labels both hold the highest count of the Counter
TopTie(c) ==
    \E i, j \in DOMAIN c :
        /\ i # j
        /\ c[i].n = c[j].n
        /\ \A k \in DOMAIN c : c[k].n <= c[i].n

\* C2: infer_framework returns None whenever two distinct framework labels tie
\* for the highest score of its tally.
C2_FrameworkTieRejected ==
    (called = "framework" /\ WellTyped(agent) /\ TopTie(FrameworkTally(agent)))
        => result = None

\* C3: infer_language returns None whenever two distinct language labels tie for
\* the highest score of its tally (the tags go and rust alone among them), and a
\* label it returns has a score strictly above every other label's.
C3_LanguageTieRejected ==
    (called = "language" /\ WellTyped(agent))
        => LET c == LanguageTally(agent)
           IN /\ TopTie(c) => result = None
              /\ agent = [BaseAgent EXCEPT !.tags = <<"go", "rust">>] => result = None
              /\ result # None
                    => \A l \in CounterLabels(c) \ {result} : Score(c, result) > Score(c, l)

\* the record tagged go and rust, 3 points each, got no decision
C3_Witness ==
    /\ called = "language"
    /\ agent = [BaseAgent EXCEPT !.tags = <<"go", "rust">>]
    /\ LanguageTally(agent) = <<[label |-> "go", n |-> 3], [label |-> "rust", n |-> 3]>>
    /\ result = None

Tally(axis, a) ==
    CASE axis = "language" -> LanguageTally(a)
      [] axis = "category" -> CategoryTally(a)
      [] axis = "framework" -> FrameworkTally(a)

\* C4: each inference function returns None when every label of its tally
\* scores below 2 (the empty tally included).
C4_Floor ==
    (called \in Axes /\ WellTyped(agent))
        => LET c == Tally(called, agent)
           IN (\A i \in DOMAIN c : c[i].n < 2) => result = None

\* the single-SDK tiebreaker alone: one label, score 1, no decision
C4_Witness ==
    /\ called = "language"
    /\ LanguageTally(agent) = <<[label |-> "go", n |-> 1]>>
    /\ result = None

----------------------------------------------------------------------------
(* Properties of the framework and category rules *)

\* the record additionally carries the tag
WithTag(a, tag) ==
    [a EXCEPT !.tags = Append(Get(a, "tags", <<>>), tag), !.absent = @ \ {"tags"}]

\* the record's only signal for google-adk is the bare acronym "adk" in its
\* text, which scores 2, and it carries none of the tags that name google-adk
OnlyBareAdk(a) ==
    /\ WellTyped(a)
    /\ Search({"adk"}, LowerText(AllText(a)))
    /\ Score(FrameworkTally(a), "google-adk") = 2
    /\ ~has_adk_tag(Get(a, "tags", <<>>))

\* every framework label other than google-adk scores at most n in the tally
OthersAtMost(a, n) ==
    \A l \in CounterLabels(FrameworkTally(a)) \ {"google-adk"} :
        Score(FrameworkTally(a), l) <= n

\* C5 as stated: such a record gets no decision, and with the tag google-adk
\* added it resolves to google-adk.
C5_AsStated ==
    (called = "framework" /\ OnlyBareAdk(agent))
        => /\ result = None
           /\ infer_framework(WithTag(agent, "google-adk")) = "google-adk"

\* C5, amended: such a record is never resolved to google-adk, and gets no
\* decision when no other framework scores above 2; with the tag google-adk
\* added (google-adk then scores 5) it resolves to google-adk when every other
\* framework scores below 5.
C5_VetoCorroboration ==
    (called = "framework" /\ OnlyBareAdk(agent))
        => /\ result # "google-adk"
           /\ OthersAtMost(agent, 2) => result = None
           /\ OthersAtMost(agent, 4)
                 => infer_framework(WithTag(agent, "google-adk")) = "google-adk"

\* a record with the bare acronym and a keyword of another framework in its
\* text: no decision without the tag, google-adk with it
C5_Witness ==
    /\ called = "framework"
    /\ OnlyBareAdk(agent)
    /\ Score(FrameworkTally(agent), "langgraph") = 2
    /\ result = None
    /\ infer_framework(WithTag(agent, "google-adk")) = "google-adk"

\* C6: a record whose provider name is "Lifie AI" and whose tags include
\* business gets "enterprise" from infer_category, whatever its other fields
\* score.
C6_OverridePrecedence ==
    (/\ called = "category"
     /\ WellTyped(agent)
     /\ ProviderName(agent) = "Lifie AI"
     /\ InList("business", Get(agent, "tags", <<>>)))
        => result = "enterprise"

\* the override won against a tally whose top label is another category
C6_Witness ==
    /\ called = "category"
    /\ WellTyped(agent)
    /\ ProviderName(agent) = "Lifie AI"
    /\ InList("business", Get(agent, "tags", <<>>))
    /\ CategoryGate(CategoryTally(agent)) \notin {None, "enterprise"}
    /\ result = "enterprise"

\* the description begins with the "Official A2A" marker and names Crewai after
\* its last colon
OfficialCrewai(a) ==
    /\ WellTyped(a)
    /\ "description" \notin a.absent
    /\ Len(a.description) >= 1
    /\ a.description[1] = "Official A2A"
    /\ InList("crewai", SampleName(a.description))

\* C7 as stated: every such record resolves to crewai.
C7_AsStated ==
    (called = "framework" /\ OfficialCrewai(agent)) => result = "crewai"

\* the framework labels the contributions go to
ContributionLabels(contributions) == {contributions[i].label : i \in DOMAIN contributions}

\* C7, amended: such a record resolves to crewai when its tags name no framework
\* other than crewai and the text after the last colon matches no pattern of
\* another framework (other frameworks then score from the generic text patterns
\* alone).
C7_PrefixDominance ==
    (/\ called = "framework"
     /\ OfficialCrewai(agent)
     /\ ContributionLabels(FwTags(Get(agent, "tags", <<>>))) \subseteq {"crewai"}
     /\ ContributionLabels(FwOfficial(agent.description)) \subseteq {"crewai"})
        => result = "crewai"

\* an official Crewai sample whose description also names google adk, which the
\* text patterns give 4 points, resolved to crewai
C7_Witness ==
    /\ called = "framework"
    /\ OfficialCrewai(agent)
    /\ agent.tags = <<>>
    /\ Score(FrameworkTally(agent), "google-adk") = 4
    /\ Score(FrameworkTally(agent), "crewai") = 12
    /\ result = "crewai"

\* the orderings of a list
Orderings(list) ==
    {[i \in DOMAIN list |-> list[p[i]]] : p \in Permutations(DOMAIN list)}

\* C9: permuting the record's tags or its skills never changes what an inference
\* function returns.
C9_OrderIndependent ==
    (called \in Axes /\ WellTyped(agent))
        => \A t \in Orderings(agent.tags), sk \in Orderings(agent.skills) :
              Infer(called, [agent EXCEPT !.tags = t, !.skills = sk]) = result

\* C10: the inference functions never raise, whichever inspected fields are
\* absent or malformed.
C10_NeverFaults == called \in Axes => result # Fault

----------------------------------------------------------------------------
(* Provider marker in any letter case *)

\* "lifie" in s.lower(), for the provider names and urls of the vocabulary
MarkerAnyCase(s) == Lower(s) \in {"lifie ai", "lifie", "https://lifie.ai"}

\* C11: infer_category returns "enterprise" for every record whose provider
\* name or provider url contains "lifie" in any letter case and whose tags
\* include business or commerce.
C11_CaseInsensitiveOverride ==
    (/\ called = "category"
     /\ WellTyped(agent)
     /\ MarkerAnyCase(ProviderName(agent)) \/ MarkerAnyCase(ProviderUrl(agent))
     /\ \/ InList("business", Get(agent, "tags", <<>>))
        \/ InList("commerce", Get(agent, "tags", <<>>)))
        => result = "enterprise"
----------------------------------------------------------------------------
(* Accounting of the driver's counters *)

\* sum(counter.values())
RECURSIVE CounterTotal(_)
CounterTotal(c) == IF c = <<>> THEN 0 ELSE c[1].n + CounterTotal(Tail(c))

Changed(axis) ==
    CASE axis = "language" -> stats.language_changed
      [] axis = "category" -> stats.category_changed
      [] axis = "framework" -> stats.framework_changed

StillUnresolved(axis) ==
    CASE axis = "language" -> stats.language_still_unknown
      [] axis = "category" -> stats.category_still_general
      [] axis = "framework" -> stats.framework_still_custom

Details(axis) ==
    CASE axis = "language" -> stats.language_details
      [] axis = "category" -> stats.category_details
      [] axis = "framework" -> stats.framework_details

\* the record holds the sentinel for the axis: agent.get(axis) == sentinel
AtSentinel(a, axis) == ~IsNone(a, axis) /\ Get(a, axis, None) = Sentinel(axis)

\* the number of records whose value for the axis was the sentinel when the
\* driver checked it: the files already walked, and the file the driver holds
\* when it is past the axis
CheckedAtSentinel(axis) ==
    Cardinality({i \in 1..(idx - 1) : AtSentinel(store[i], axis)})
        + (IF axis \in AxesPassed /\ AtSentinel(orig, axis) THEN 1 ELSE 0)

\* C12: while the driver runs and when it has finished, for each axis the
\* changed counter plus the still-unresolved counter is the number of records
\* that held the sentinel for the axis when checked, and the counts of the
\* axis's label-frequency table add up to its changed counter.
C12_CounterAccounting ==
    pc # "crashed" =>
        \A axis \in Axes :
            /\ Changed(axis) + StillUnresolved(axis) = CheckedAtSentinel(axis)
            /\ CounterTotal(Details(axis)) = Changed(axis)

\* the driver has finished a store in which an axis was changed for one record
\* and left unresolved for another, and some record had an axis resolved
\* beforehand
C12_Witness ==
    /\ pc = "done"
    /\ \E axis \in Axes : Changed(axis) >= 1 /\ StillUnresolved(axis) >= 1
    /\ \E axis \in Axes : CheckedAtSentinel(axis) < Len(store)
----------------------------------------------------------------------------
(* A second pass over an enriched record *)

\* one axis of the loop body as a function of the record: the value is replaced
\* when it is the sentinel and inference returns a label
EnrichAxis(a, axis) ==
    IF AtSentinel(a, axis) /\ Infer(axis, a) \notin {None, Fault}
    THEN [a EXCEPT ![axis] = Infer(axis, a)]
    ELSE a

\* the loop body as a function of the record: language, category, framework
EnrichRecord(a) ==
    EnrichAxis(EnrichAxis(EnrichAxis(a, "language"), "category"), "framework")

\* C13: the record the driver's pass has produced is left as it is by a second
\* application of the per-record enrichment.
C13_SecondPassChangesNothing ==
    pc = "write" => EnrichRecord(agent) = agent
----------------------------------------------------------------------------
====
